---- MODULE Spec2Model ----
(***************************************************************************)
(* Model of src/app.py: the Flask routes /, /chat, /reset and /feedback,   *)
(* the per-session 'chat_history' slot, and the generator generate_chunks  *)
(* that relays the completion stream.                                      *)
(*                                                                         *)
(* Strings are sequences of characters, so that strip() and the            *)
(* concatenation full_resp += token are computed, not assumed.             *)
(***************************************************************************)
EXTENDS Integers, Sequences, FiniteSets, TLC

\* ------------------------------------------------------------------ bounds
MaxMsgLen == 2          \* longest raw "message" value enumerated
MaxTokens == 2          \* most non-empty tokens one upstream stream delivers
MaxStoredPairs == 1     \* SpecStore: exchanges the session slot may already hold
Requests == {1, 2}      \* /chat requests of the one session that may overlap

\* ------------------------------------------------------- program constants
HistoryCap == 10        \* app.py:256-257  len(chat_history) > 10 / [-10:]
DefaultLang == "hi"     \* app.py:213,215
GREET_USER == <<"G">>   \* app.py:221  the literal "GREET_USER" (one symbol here)

\* ------------------------------------------------------------ input values
Chars == {" ", "G"}
Missing == <<"missing">>        \* the key "message" is not in the JSON body
NoLang == "nolang"              \* the key "lang" is not in the JSON body
NoKey == [has_key |-> FALSE, list |-> <<>>]   \* 'chat_history' is not in the session
Stored(h) == [has_key |-> TRUE, list |-> h]   \* session['chat_history'] = h
NotRun == "notrun"              \* detect() was not called
Raises == "raises"              \* detect() raised LangDetectException

SeqsUpTo(S, n) == UNION {[1..k -> S] : k \in 0..n}
Messages == {Missing} \cup SeqsUpTo(Chars, MaxMsgLen)
Langs == {NoLang, "EN"}
DetectOutcomes == {"fr", Raises}   \* detect(): a code, or LangDetectException
Tokens == {<<>>, <<"t">>}       \* chunk.choices[0].delta.content: empty or text
Payloads == {"object", "malformed"}

\* ------------------------------------------------------ language registry
LANGUAGE_CONFIG ==
  {"hi", "en", "bn", "mr", "gu", "pa", "ur", "or", "as", "ks", "kok", "sd",
   "ne", "doi", "brx", "sat", "ta", "te", "kn", "ml", "mni"}

Instruction(code) == <<"instruction", code>>

get_system_prompt(lang_code) ==
  LET config == IF lang_code \in LANGUAGE_CONFIG THEN lang_code ELSE "hi"
  IN  <<"BASE_SYSTEM_PROMPT", "\n", Instruction(config)>>

\* str.lower() on the enumerated codes
lower(s) == CASE s = "EN" -> "en"
              [] OTHER -> s

\* ----------------------------------------------------------- str.strip()
IsSpace(c) == c = " "

RECURSIVE lstrip(_)
lstrip(s) == IF s # <<>> /\ IsSpace(Head(s)) THEN lstrip(Tail(s)) ELSE s

RECURSIVE rstrip(_)
rstrip(s) == IF s # <<>> /\ IsSpace(s[Len(s)])
             THEN rstrip(SubSeq(s, 1, Len(s) - 1)) ELSE s

strip_identity(s) == s

strip(s) == lstrip(rstrip(s))

\* data.get("message", "").strip()
UserMessageOf(message) == strip(IF message = Missing THEN <<>> ELSE message)

\* ------------------------------------------------------------------ turns
Turn(role, content) == [role |-> role, content |-> content]

\* session.get('chat_history', [])
session_get(s) == IF s.has_key THEN s.list ELSE <<>>

session_pop_keep(s) == s

\* session.pop('chat_history', None)
session_pop(s) == NoKey

\* chat_history[-10:]
LastN(h, n) == IF Len(h) > n THEN SubSeq(h, Len(h) - n + 1, Len(h)) ELSE h

\* lines 251-257 applied to a bound list h
ExtendAndTrim(h, user_message, full) ==
  LET ext == h \o <<Turn("user", user_message), Turn("assistant", full)>>
  IN  IF Len(ext) > HistoryCap THEN LastN(ext, HistoryCap) ELSE ext

\* Names that generate_chunks assigns, hence its local variables: Python
\* decides this per function body, so the assignment of line 257 makes
\* chat_history local on line 251 as well (there is no nonlocal statement).
GenerateChunksLocals == {"full_resp", "stream", "chunk", "token", "chat_history"}

\* ---------------------------------------------------- language resolution
\* lines 211-215, given the outcome of detect() when it returned
ResolveLang(lang, det) ==
  LET frontend_lang == IF lang = NoLang THEN "" ELSE lang
      first == IF frontend_lang # "" THEN frontend_lang
               ELSE IF det \notin {NotRun, Raises} THEN det ELSE DefaultLang
      code == lower(first)
  IN  IF code \in LANGUAGE_CONFIG THEN code ELSE DefaultLang

MessagesForApi_greet_always(system_prompt, history, user_message) ==
  IF user_message = GREET_USER
  THEN <<Turn("system", system_prompt), Turn("user", GREET_USER)>>
  ELSE <<Turn("system", system_prompt)>> \o history
         \o <<Turn("user", user_message)>>

\* lines 221-231
MessagesForApi(system_prompt, history, user_message) ==
  IF history = <<>> /\ user_message = GREET_USER
  THEN <<Turn("system", system_prompt), Turn("user", GREET_USER)>>
  ELSE <<Turn("system", system_prompt)>> \o history
         \o <<Turn("user", user_message)>>

SessionAfterAssembly_in_place(s, system_prompt) ==
  IF s.has_key THEN Stored(<<Turn("system", system_prompt)>> \o s.list) ELSE s

\* lines 222-231 build a new list (the * spread copies chat_history), so the
\* list held by the session is what it was
SessionAfterAssembly(s, system_prompt) == s

\* -------------------------------------------------------------- responses
R400 == [status |-> 400, body |-> "Invalid message."]
R500 == [status |-> 500, body |-> "An error occurred while communicating with the AI."]
R200Stream == [status |-> 200, body |-> "text/plain stream"]
NoResponse == [status |-> 0, body |-> "none"]
ResetOK == [route |-> "reset", status |-> 200, body |-> "Chat history cleared."]
HomePage == [route |-> "home", status |-> 200, body |-> "index.html"]
FeedbackOK == [route |-> "feedback", status |-> 200, body |-> "Feedback received successfully"]
Feedback500 == [route |-> "feedback", status |-> 500, body |-> "Failed to process feedback"]
NoLast == [route |-> "none", status |-> 0, body |-> "none"]

VARIABLES
  session,           \* the session's 'chat_history' slot: NoKey or Stored(list)
  last,              \* response of the latest /, /reset or /feedback request
  pc,                \* per /chat request: where it is
  request,           \* the JSON body of a request that arrived: [message, lang]
  user_message,      \* chat's local user_message
  detected,          \* what detect() did for this request
  lang_code,         \* chat's local lang_code
  chat_history,      \* chat's local chat_history (read on line 218)
  messages_for_api,  \* chat's local messages_for_api
  called,            \* client.chat.completions.create was invoked
  full_resp,         \* generate_chunks' local full_resp (= the tokens yielded)
  exc,               \* exception that ended the request, if any
  response           \* what /chat returned

vars == <<session, last, pc, request, user_message, detected, lang_code, chat_history,
          messages_for_api, called, full_resp, exc, response>>

NoRequest == [message |-> Missing, lang |-> NoLang]

\* a slot is free before its first request and after its request is over
Free == {"idle", "responded", "unhandled", "raised", "closed", "done"}
InLoop == {"running", "suspended"}

StoredPair == <<Turn("user", <<"G", "G">>), Turn("assistant", <<"t">>)>>

RECURSIVE Repeat(_, _)
Repeat(p, k) == IF k = 0 THEN <<>> ELSE p \o Repeat(p, k - 1)

StoredValues ==
  {NoKey} \cup {Stored(Repeat(StoredPair, k)) : k \in 0..MaxStoredPairs}

InitRequests ==
  /\ last = NoLast
  /\ pc = [r \in Requests |-> "idle"]
  /\ request = [r \in Requests |-> NoRequest]
  /\ user_message = [r \in Requests |-> <<>>]
  /\ detected = [r \in Requests |-> NotRun]
  /\ lang_code = [r \in Requests |-> DefaultLang]
  /\ chat_history = [r \in Requests |-> <<>>]
  /\ messages_for_api = [r \in Requests |-> <<>>]
  /\ called = [r \in Requests |-> FALSE]
  /\ full_resp = [r \in Requests |-> <<>>]
  /\ exc = [r \in Requests |-> "none"]
  /\ response = [r \in Requests |-> NoResponse]

\* a fresh session: nothing stored
Init == session = NoKey /\ InitRequests

\* The slot is storage the handlers read and clear. InitStore lets it hold
\* any stored value (no key, an empty list, whole exchanges), so that home,
\* reset_chat and the assembly of the message list are checked on every
\* content they can be handed, not only on the empty one.
InitStore == session \in StoredValues /\ InitRequests

ChatLocalsUnchanged ==
  UNCHANGED <<last, request, user_message, detected, lang_code,
              chat_history, messages_for_api, response>>

\* --------------------------------------------------------------- handlers
\* GET /  (lines 196-199)
home ==
  /\ session' = session_pop(session)
  /\ last' = HomePage
  /\ UNCHANGED <<pc, request, user_message, detected, lang_code, chat_history,
                 messages_for_api, called, full_resp, exc, response>>

\* POST /reset  (lines 270-273)
reset_chat ==
  /\ session' = session_pop(session)
  /\ last' = ResetOK
  /\ UNCHANGED <<pc, request, user_message, detected, lang_code, chat_history,
                 messages_for_api, called, full_resp, exc, response>>

\* POST /feedback  (lines 167-193): logs and acknowledges; any exception
\* while reading the payload gives the 500
feedback(payload) ==
  /\ last' = IF payload = "object" THEN FeedbackOK ELSE Feedback500
  /\ UNCHANGED <<session, pc, request, user_message, detected, lang_code,
                 chat_history,
                 messages_for_api, called, full_resp, exc, response>>

\* a POST /chat arrives with its JSON body (line 203: data = request.json)
ChatArrives(r, message, lang) ==
  /\ pc[r] \in Free
  /\ pc' = [pc EXCEPT ![r] = "received"]
  /\ request' = [request EXCEPT ![r] = [message |-> message, lang |-> lang]]
  /\ user_message' = [user_message EXCEPT ![r] = <<>>]
  /\ detected' = [detected EXCEPT ![r] = NotRun]
  /\ lang_code' = [lang_code EXCEPT ![r] = DefaultLang]
  /\ chat_history' = [chat_history EXCEPT ![r] = <<>>]
  /\ messages_for_api' = [messages_for_api EXCEPT ![r] = <<>>]
  /\ called' = [called EXCEPT ![r] = FALSE]
  /\ full_resp' = [full_resp EXCEPT ![r] = <<>>]
  /\ exc' = [exc EXCEPT ![r] = "none"]
  /\ response' = [response EXCEPT ![r] = NoResponse]
  /\ UNCHANGED <<session, last>>

\* POST /chat, lines 204-263: everything up to returning the Response.
\* The generator object is created but no line of its body has run: the
\* try of line 234 only covers the def, the call that makes the generator
\* object and the construction of the Response. det is what detect() does
\* if it is called.
chat(r, det) ==
  LET message == request[r].message
      lang == request[r].lang
      msg == UserMessageOf(message)
      runs_detect == lang \in {NoLang, ""}
      code == ResolveLang(lang, det)
      system_prompt == get_system_prompt(code)
      history == session_get(session)
  IN
  /\ pc[r] = "received"
  /\ request' = [request EXCEPT ![r] = NoRequest]
  /\ UNCHANGED <<last, called, full_resp>>
  /\ IF msg = <<>>
     THEN \* lines 207-208
          /\ pc' = [pc EXCEPT ![r] = "responded"]
          /\ response' = [response EXCEPT ![r] = R400]
          /\ UNCHANGED <<session, user_message, detected, lang_code,
                         chat_history, messages_for_api, exc>>
     ELSE IF runs_detect /\ det = Raises
     THEN \* line 212 is outside any try: the exception leaves the view
          /\ pc' = [pc EXCEPT ![r] = "unhandled"]
          /\ exc' = [exc EXCEPT ![r] = "LangDetectException"]
          /\ user_message' = [user_message EXCEPT ![r] = msg]
          /\ detected' = [detected EXCEPT ![r] = Raises]
          /\ UNCHANGED <<session, lang_code, chat_history, messages_for_api,
                         response>>
     ELSE /\ pc' = [pc EXCEPT ![r] = "ready"]
          /\ response' = [response EXCEPT ![r] = R200Stream]
          /\ user_message' = [user_message EXCEPT ![r] = msg]
          /\ detected' = [detected EXCEPT ![r] =
                             IF runs_detect THEN det ELSE NotRun]
          /\ lang_code' = [lang_code EXCEPT ![r] = code]
          /\ chat_history' = [chat_history EXCEPT ![r] = history]
          /\ messages_for_api' = [messages_for_api EXCEPT ![r] =
                 MessagesForApi(system_prompt, history, msg)]
          /\ session' = SessionAfterAssembly(session, system_prompt)
          /\ UNCHANGED exc

\* ------------------------------------------------------- generate_chunks
\* lines 236-243: first next() on the generator; create() returns a stream
GenStart(r) ==
  /\ pc[r] = "ready"
  /\ called' = [called EXCEPT ![r] = TRUE]
  /\ pc' = [pc EXCEPT ![r] = "running"]
  /\ UNCHANGED <<session, full_resp, exc>>
  /\ ChatLocalsUnchanged

\* lines 237-243: create() raises. The body runs while the response is being
\* sent, after chat() left its try block, so lines 265-267 do not see it.
GenCreateRaises(r) ==
  /\ pc[r] = "ready"
  /\ called' = [called EXCEPT ![r] = TRUE]
  /\ pc' = [pc EXCEPT ![r] = "raised"]
  /\ exc' = [exc EXCEPT ![r] = "UpstreamError"]
  /\ UNCHANGED <<session, full_resp>>
  /\ ChatLocalsUnchanged

PersistOnToken(s, h, msg, full) == Stored(ExtendAndTrim(h, msg, full))

\* what the loop body (lines 245-248) does to the session: nothing
SessionAfterToken(s, h, msg, full) == s

\* lines 244-248: one chunk; a non-empty token is accumulated and yielded,
\* an empty one is skipped
GenChunk(r, token) ==
  /\ pc[r] \in InLoop
  /\ IF token # <<>>
     THEN /\ Len(full_resp[r]) < MaxTokens
          /\ full_resp' = [full_resp EXCEPT ![r] = @ \o token]
          /\ pc' = [pc EXCEPT ![r] = "suspended"]
          /\ session' = SessionAfterToken(session, chat_history[r],
                                          user_message[r], full_resp'[r])
     ELSE /\ full_resp' = full_resp
          /\ pc' = [pc EXCEPT ![r] = "running"]
          /\ session' = session
  /\ UNCHANGED <<called, exc>>
  /\ ChatLocalsUnchanged

\* line 244: the stream raises while it is iterated
GenStreamRaises(r) ==
  /\ pc[r] \in InLoop
  /\ pc' = [pc EXCEPT ![r] = "raised"]
  /\ exc' = [exc EXCEPT ![r] = "UpstreamError"]
  /\ UNCHANGED <<session, called, full_resp>>
  /\ ChatLocalsUnchanged

\* the client stops consuming: the generator is closed where it is suspended
\* (GeneratorExit at the yield of line 248) or before it was started
ClientClose(r) ==
  /\ pc[r] \in {"ready", "suspended"}
  /\ pc' = [pc EXCEPT ![r] = "closed"]
  /\ exc' = [exc EXCEPT ![r] = "GeneratorExit"]
  /\ UNCHANGED <<session, called, full_resp>>
  /\ ChatLocalsUnchanged

\* lines 250-258, reached when the stream is exhausted. chat_history is a
\* local of generate_chunks that nothing has bound, so reading it on line 251
\* raises UnboundLocalError and lines 252-258 do not run.
GenEnd(r) ==
  /\ pc[r] \in InLoop
  /\ IF "chat_history" \in GenerateChunksLocals
     THEN /\ pc' = [pc EXCEPT ![r] = "raised"]
          /\ exc' = [exc EXCEPT ![r] = "UnboundLocalError"]
          /\ UNCHANGED session
     ELSE /\ pc' = [pc EXCEPT ![r] = "done"]
          /\ exc' = exc
          /\ session' = Stored(ExtendAndTrim(chat_history[r], user_message[r],
                                             full_resp[r]))
  /\ UNCHANGED <<called, full_resp>>
  /\ ChatLocalsUnchanged

\* everything one /chat request does
ChatStep(r) ==
  \/ \E m \in Messages, l \in Langs : ChatArrives(r, m, l)
  \/ \E d \in DetectOutcomes : chat(r, d)
  \/ GenStart(r)
  \/ GenCreateRaises(r)
  \/ \E t \in Tokens : GenChunk(r, t)
  \/ GenStreamRaises(r)
  \/ ClientClose(r)
  \/ GenEnd(r)

Next ==
  \/ home
  \/ reset_chat
  \/ \E p \in Payloads : feedback(p)
  \/ \E r \in Requests : ChatStep(r)

\* one /chat request at a time
NextSequential ==
  \/ home
  \/ reset_chat
  \/ \E p \in Payloads : feedback(p)
  \/ ChatStep(1)

Spec == Init /\ [][Next]_vars

SpecStore == InitStore /\ [][NextSequential]_vars

\* ================================================================ claims
\* the step in which chat() handles the request that arrived for r
Handled(r) == pc[r] = "received" /\ pc'[r] # "received"

\* the step in which r's upstream stream is exhausted (the for loop ends)
StreamConsumed(r) ==
  /\ pc[r] \in InLoop
  /\ pc'[r] \in {"done", "raised"}
  /\ exc'[r] # "UpstreamError"

\* r's stream was consumed to its end
Consumed(r) ==
  pc[r] = "done" \/ (pc[r] = "raised" /\ exc[r] = "UnboundLocalError")

\* a step of r's generator
GenMoved(r) ==
  /\ pc[r] \in {"ready", "running", "suspended"}
  /\ <<pc[r], full_resp[r], exc[r]>>' # <<pc[r], full_resp[r], exc[r]>>

TurnPair(r) ==
  <<Turn("user", user_message[r]), Turn("assistant", full_resp[r])>>

IsBlank(m) == m = Missing \/ \A i \in 1..Len(m) : m[i] = " "

Min(a, b) == IF a < b THEN a ELSE b

\* C1: when a request's stream is consumed to its end, the session history
\* read afterwards is the turns the request had read, then its user turn,
\* then an assistant turn with the whole accumulated response (as long as
\* the cap is not exceeded).
C1_HistoryAfterStream ==
  [][\A r \in Requests :
       (StreamConsumed(r) /\ Len(chat_history[r]) + 2 <= HistoryCap)
         => session_get(session') = chat_history[r] \o TurnPair(r)]_vars

\* C2: when the completion call fails before any token was yielded, /chat
\* has answered with the 500 error response and the session history is what
\* it was.
C2_UpstreamErrorGives500 ==
  [][\A r \in Requests :
       (GenMoved(r) /\ exc'[r] = "UpstreamError" /\ full_resp[r] = <<>>)
         => (response'[r] = R500 /\ session' = session)]_vars

\* C3: when lang is omitted and detection raises on a non-empty message, the
\* request does not end in an exception: lang_code is 'hi' and the request
\* goes on to the completion call.
C3_DetectionFailureFallsBack ==
  \A r \in Requests :
    detected[r] = Raises
      => (pc[r] # "unhandled" /\ exc[r] # "LangDetectException"
          /\ lang_code[r] = DefaultLang)

\* C4: a request whose message is missing, empty or only whitespace gets the
\* 400 "Invalid message." response; detection is not run, the completion
\* service is not called and the session history is unchanged.
C4_InvalidMessageRejected ==
  /\ [][\A r \in Requests :
          (Handled(r) /\ IsBlank(request[r].message))
            => (/\ pc'[r] = "responded"
                /\ response'[r] = R400
                /\ detected'[r] = NotRun
                /\ ~called'[r]
                /\ session' = session)]_vars
  /\ [](\A r \in Requests :
          pc[r] = "responded" => (response[r] = R400 /\ ~called[r]))

C4_Witness ==
  \E r \in Requests :
    pc[r] = "responded" /\ response[r] = R400 /\ ~called[r]
      /\ detected[r] = NotRun

\* C5: the stored history never holds more than 10 turns, and the append at
\* the end of a stream keeps exactly the most recent 10 turns of what the
\* request read plus its own pair (all of them when there are at most 10).
C5_AppendKeepsMostRecent ==
  /\ [](Len(session_get(session)) <= HistoryCap)
  /\ [][\A r \in Requests :
          StreamConsumed(r)
            => LET ext == chat_history[r] \o TurnPair(r)
               IN  /\ Len(session_get(session')) = Min(Len(ext), HistoryCap)
                   /\ session_get(session') = LastN(ext, HistoryCap)]_vars

\* C6: after POST /reset and after GET / the history reads as empty whatever
\* was stored; /reset answers 200 "Chat history cleared."; clearing twice
\* gives what clearing once gives.
C6_ResetClears ==
  /\ [][(last'.route \in {"reset", "home"}
          /\ (last' # last \/ session' # session))
         => (/\ session_get(session') = <<>>
             /\ (last'.route = "reset" => last' = ResetOK))]_vars
  /\ [](session_pop(session_pop(session)) = session_pop(session)
        /\ session_get(session_pop(session)) = <<>>)

C6_Witness ==
  \E r \in Requests :
    /\ chat_history[r] # <<>>
    /\ last = ResetOK
    /\ session_get(session) = <<>>

\* C7: no step of a request before the end of its stream writes the session
\* history: not the handler, not a forwarded token, not an upstream failure
\* partway, not the client closing the stream.
C7_NoWriteBeforeStreamEnd ==
  [][\A r \in Requests :
       ((Handled(r) \/ GenMoved(r)) /\ ~StreamConsumed(r))
         => session' = session]_vars

C7_Witness ==
  \E r, q \in Requests :
    /\ pc[r] = "raised" /\ exc[r] = "UpstreamError" /\ full_resp[r] # <<>>
    /\ pc[q] = "closed" /\ full_resp[q] # <<>>

\* C8: the list sent to the completion service is the system turn for the
\* resolved language, then the stored history in order, then the new user
\* turn; with an empty history and the message GREET_USER it is exactly
\* [system, user GREET_USER]; with a non-empty history GREET_USER is
\* treated like any other message.
C8_MessageList ==
  [][\A r \in Requests :
       (Handled(r) /\ pc'[r] = "ready")
         => LET sys == Turn("system", get_system_prompt(lang_code'[r]))
                usr == Turn("user", user_message'[r])
                h == session_get(session)
            IN  /\ messages_for_api'[r] = <<sys>> \o h \o <<usr>>
                /\ (request[r].lang = "EN" => lang_code'[r] = "en")
                /\ (h = <<>> /\ user_message'[r] = GREET_USER
                      => messages_for_api'[r] = <<sys, Turn("user", GREET_USER)>>)
                /\ (h # <<>> => Len(messages_for_api'[r]) = Len(h) + 2)]_vars

C8_Witness ==
  \E r \in Requests :
    /\ pc[r] = "ready"
    /\ user_message[r] = GREET_USER
    /\ chat_history[r] # <<>>
    /\ Len(messages_for_api[r]) = Len(chat_history[r]) + 2

C10_LastWriterWins ==
  [][\A r, q \in Requests :
       (r # q /\ Consumed(r) /\ StreamConsumed(q)
          /\ chat_history[r] = chat_history[q])
         => session_get(session') = chat_history[q] \o TurnPair(q)]_vars

====
